---- MODULE Spec2Model ----
(***************************************************************************)
(* Prompter.generate of bertprompt/lm.py: the blank-filling loop, the      *)
(* iterative-revision loop and replace_single_token (prediction rows,      *)
(* fallback ladder, de-duplication, perplexity re-ranking).                *)
(*                                                                         *)
(* A sentence is the sequence of its words; the tokenizer is taken to map  *)
(* one word to one token.  The masked language model is an external        *)
(* collaborator: each of its prediction rows is chosen by \E among all     *)
(* ranked rows over Tok, each perplexity among PplValues (the same         *)
(* sentence always gets the score the candidate's history records for it). *)
(* Python's 0-based list indices are 1-based here.                         *)
(***************************************************************************)
EXTENDS Integers, Sequences, FiniteSets, TLC

VARIABLES
    param,           \* the arguments of generate (never change)
    pc,              \* position in generate / replace_single_token
    phase,           \* "mask" up to the zip of lm.py:271, then "revise"
    seed_sentences,  \* lm.py:254,266,284,297
    ppl,             \* lm.py:266,284,298
    vocab_to_keep,   \* lm.py:219,273,301 (<<>> while it is None)
    edit,            \* lm.py:258,268,271,294
    edit_ppl,        \* lm.py:259,269,272,295
    data_index,      \* lm.py:279,299
    output_dict,     \* lm.py:278,289,311
    i,               \* lm.py:281,308
    partition_n,     \* lm.py:366 loop index of replace_single_token
    item,            \* next prediction row of candidate partition_n (lm.py:370,398)
    topk_decoded,    \* lm.py:369 for the three calls of process_single_pair
    greedy_filling,  \* lm.py:364,422
    err,             \* the exception that left generate, or NoError
    warning,         \* what the last ladder logged at lm.py:410, or NoWarning
    rounds,          \* calls of replace_single_token made by the revision loop
    pool,            \* results of the running pool_map, in the order the workers finish
    p_length,        \* Partition.length (lm.py:44)
    pool_out         \* out of the pool_map of get_partition (lm.py:23,31)

vars == <<param, pc, phase, seed_sentences, ppl, vocab_to_keep, edit, edit_ppl,
          data_index, output_dict, i, partition_n, item, topk_decoded,
          greedy_filling, err, warning, rounds, pool, p_length, pool_out>>

(***************************************************************************)
(* Bounds of the model                                                     *)
(***************************************************************************)
MaxRevision == 1     \* n_revision ranges over 0..MaxRevision
MaxPpl == 3          \* perplexities range over 1..MaxPpl

\* lm.py:341 sets 100; scaled to the size of Tok, so that the pool is still
\* larger than the smallest topk and still only a part of the vocabulary.
topk_per_position == 2

NoError == [type |-> "none", vocab |-> <<>>, prompt |-> <<>>]
NoWarning == [edit |-> <<>>, vocab |-> <<>>]

\* generate was called with seed_sentences (lm.py:243)
SeedMode == "seed_sentences" \in DOMAIN param

(***************************************************************************)
(* Tokens and sentences                                                    *)
(***************************************************************************)
MASK == "[MASK]"
CLS == "[CLS]"
SEP == "[SEP]"
\* the tokens the backend ranks at a blank: the two words of the pairs, a
\* longer word that holds one of them, two fillers
Tok == {"dog", "cat", "cats", "is", "a"}
\* the same without the longer word
PlainTok == {"dog", "cat", "is", "a"}
StubRanking == <<"is", "a">>
\* tokenizer.all_special_tokens without the mask token (lm.py:192)
to_remove == {CLS, SEP, "<pad>", "<unk>"}
sp_token_prefix == <<CLS>>

Last(s) == s[Len(s)]
Range(s) == {s[x] : x \in DOMAIN s}
Rep(x, n) == [j \in 1..n |-> x]
\* range(n), 1-based
UpTo(n) == [j \in 1..n |-> j]
Pick(s, idx) == [j \in 1..Len(idx) |-> s[idx[j]]]

RECURSIVE Chain(_)
\* itertools.chain(*groups)
Chain(groups) ==
    IF groups = <<>> THEN <<>> ELSE Head(groups) \o Chain(Tail(groups))

RECURSIVE SumTo(_, _)
\* sum(length[:x])
SumTo(length, x) == IF x = 0 THEN 0 ELSE SumTo(length, x - 1) + length[x]

\* Partition.__call__ for every group: the half-open range [s, e) of group x
get_partition(_list) ==
    LET length == [x \in 1..Len(_list) |-> Len(_list[x])]
    IN [x \in 1..Len(_list) |-> <<SumTo(length, x - 1), SumTo(length, x)>>]

\* the mutant of Slice that takes the first e - s items of the flat list
Slice_FromStart(flat, s, e) == SubSeq(flat, 1, e - s)

\* flat[s:e]
Slice(flat, s, e) == SubSeq(flat, s + 1, e)

\* list(zip(*rows)): one tuple per column; no column at all when rows is empty
Zip(rows) ==
    IF rows = <<>> THEN <<>>
    ELSE [x \in 1..Len(rows[1]) |-> [r \in 1..Len(rows) |-> rows[r][x]]]

\* the mutant of pair_to_seed that leaves the blanks at the end out
pair_to_seed_NoEnd(word_pair, n_blank, n_blank_b, n_blank_e) ==
    Rep(MASK, n_blank_b) \o <<word_pair[1]>> \o Rep(MASK, n_blank) \o <<word_pair[2]>>

\* Prompter.pair_to_seed
pair_to_seed(word_pair, n_blank, n_blank_b, n_blank_e) ==
    Rep(MASK, n_blank_b) \o <<word_pair[1]>> \o Rep(MASK, n_blank)
        \o <<word_pair[2]>> \o Rep(MASK, n_blank_e)

\* '||'.join(v)
JoinKey(v) == v[1] \o "||" \o v[2]

HasMask(s) == \E p \in 1..Len(s) : s[p] = MASK

\* tokenizer.encode_plus: the sentence between the tokenizer's special tokens
Encode(s) == sp_token_prefix \o s \o <<SEP>>

\* tokenizer.decode followed by Prompter.cleanup_decode: the special tokens are
\* removed, the mask token is kept
cleanup_decode(tokens) == SelectSeq(tokens, LAMBDA t : t \notin to_remove)

\* get_encoding + the rows `filtered` keeps: one (input, blank position) per
\* prediction row.  A sentence with blanks is encoded once and predicted at every
\* blank; a sentence without blanks is encoded once per token, that token masked.
RowItems(s) ==
    IF HasMask(s)
    THEN LET inp == Encode(s)
             at == SelectSeq(UpTo(Len(inp)), LAMBDA p : inp[p] = MASK)
         IN [j \in 1..Len(at) |-> [inp |-> inp, pos |-> at[j]]]
    ELSE [p \in 1..Len(s) |->
            [inp |-> Encode([s EXCEPT ![p] = MASK]),
             pos |-> p + Len(sp_token_prefix)]]

(***************************************************************************)
(* Constraint check                                                        *)
(***************************************************************************)
\* re.findall(x, word) finds something: the term is the word or a part of it
InWord(x, w) == x = w \/ (x = "cat" /\ w = "cats")

\* re.findall(r'|'.join(vocab), sentence): per word the first term found in it
VocabIn(sentence, vocab) ==
    LET hit == SelectSeq(sentence,
                         LAMBDA w : \E n \in 1..Len(vocab) : InWord(vocab[n], w))
        first(w) == vocab[CHOOSE n \in 1..Len(vocab) :
                        /\ InWord(vocab[n], w)
                        /\ \A m \in 1..(n - 1) : ~InWord(vocab[m], w)]
    IN [j \in 1..Len(hit) |-> first(hit[j])]

\* the mutant of check_vocab that accepts every sentence
check_vocab_any(sentence, vocab) == TRUE

\* check_vocab, lm.py:332-337
check_vocab(sentence, vocab) ==
    LET vocab_in == VocabIn(sentence, vocab)
    IN /\ Cardinality(Range(vocab_in)) = Len(vocab_in)
       /\ Len(vocab_in) = Len(vocab)

\* decode_topk's test, lm.py:381-394; `if vocab_to_keep:` is false for None and
\* for the empty list alike, both written <<>>
Admissible(decoded, v, allow_subword) ==
    LET decoded_no_mask == SelectSeq(decoded, LAMBDA w : w # MASK)
    IN IF v = <<>> THEN TRUE
       ELSE /\ IF allow_subword
               THEN \A n \in 1..Len(v) :
                        \E p \in 1..Len(decoded_no_mask) : InWord(v[n], decoded_no_mask[p])
               ELSE \A n \in 1..Len(v) :
                        \E p \in 1..Len(decoded_no_mask) : decoded_no_mask[p] = v[n]
            /\ check_vocab(decoded_no_mask, v)

(***************************************************************************)
(* The backend's prediction rows                                           *)
(***************************************************************************)
\* topk(topk_per_position): distinct tokens, values in descending order
Rankings(tokens) ==
    {r \in [1..topk_per_position -> tokens] :
        \A a, b \in 1..topk_per_position : a # b => r[a] # r[b]}
\* the values of a row only have to descend; they are taken among as many
\* levels as the row has entries, so that equal ranks of two rows tie
RowVals ==
    {v \in [1..topk_per_position -> 1..topk_per_position] :
        \A a, b \in 1..topk_per_position : a < b => v[a] > v[b]}
\* the rows a backend can answer with when it ranks `tokens` highest; a stub
\* always answers with the same ranking
BackendRows(tokens, stub) ==
    IF stub THEN {[ind |-> StubRanking, val |-> v] : v \in RowVals}
    ELSE {[ind |-> r, val |-> v] : r \in Rankings(tokens), v \in RowVals}

\* decode_topk(k, ...) for k in range(_topk), None filtered out (lm.py:375-401)
ProcessRow(it, row, _topk, allow_subword, v) ==
    LET decoded(k) == cleanup_decode([it.inp EXCEPT ![it.pos] = row.ind[k]])
        ks == SelectSeq(UpTo(_topk), LAMBDA k : Admissible(decoded(k), v, allow_subword))
    IN [j \in 1..Len(ks) |-> [sent |-> decoded(ks[j]), lik |-> row.val[ks[j]]]]

PplValues == 1..MaxPpl

\* a stub score: the fewer blanks are left, the lower the perplexity
StubPpl(s) == 1 + Len(SelectSeq(s, LAMBDA w : w = MASK))

(***************************************************************************)
(* De-duplication, ordering and truncation (lm.py:416-422)                 *)
(***************************************************************************)
MaxOf(S) == CHOOSE m \in S : \A n \in S : n <= m
MinOf(S) == CHOOSE m \in S : \A n \in S : m <= n

\* smallest element of a set of numbers
LeastOf(S) == CHOOSE m \in S : \A n \in S : m <= n
\* the mutant of DropDuplicated that keeps the lowest likelihood of a sentence
DropDuplicated_Lowest(topk_edit) ==
    {[sent |-> d,
      lik |-> LeastOf({topk_edit[x].lik : x \in {y \in 1..Len(topk_edit) : topk_edit[y].sent = d}})]
        : d \in {topk_edit[x].sent : x \in 1..Len(topk_edit)}}

\* per distinct decoded sentence the entry with the highest likelihood
DropDuplicated(topk_edit) ==
    {[sent |-> d,
      lik |-> MaxOf({topk_edit[x].lik : x \in {y \in 1..Len(topk_edit) : topk_edit[y].sent = d}})]
        : d \in {topk_edit[x].sent : x \in 1..Len(topk_edit)}}

\* sorted(..., reverse=True)[:min(topk, len)]: the set is iterated in an order
\* the run does not fix (string hashing), and the sort is stable, so entries of
\* equal likelihood may come in any order
Shortlists(deduped, topk) ==
    LET m == IF topk < Cardinality(deduped) THEN topk ELSE Cardinality(deduped)
    IN {[j \in 1..m |-> q[j].sent] :
          q \in {f \in [1..m -> deduped] :
                   /\ \A a, b \in 1..m : a < b => (f[a] # f[b] /\ f[a].lik >= f[b].lik)
                   /\ \A e \in deduped \ Range(f) : e.lik <= f[m].lik}}

(***************************************************************************)
(* Perplexity re-ranking (lm.py:424-432)                                   *)
(***************************************************************************)
\* ppl.index(min(ppl)): the first position of the minimum
IndexOfMin(p) == MinOf({x \in 1..Len(p) : \A y \in 1..Len(p) : p[x] <= p[y]})

best_edit_of(sent, p) == sent[IndexOfMin(p)]
best_ppl_of(p) == p[IndexOfMin(p)]

(***************************************************************************)
(* The revision loop's bookkeeping (lm.py:287-301)                         *)
(***************************************************************************)
data_key(k) ==
    IF SeedMode THEN param.seed_sentences[k]      \* lm.py:249
    ELSE JoinKey(param.word_pairs[k])             \* lm.py:256

index_fixed_of(sentences, ed) ==
    SelectSeq(UpTo(Len(sentences)), LAMBDA x : sentences[x] = Last(ed[x]))

\* the mutant of index_unfixed_of that is the alternative left in a comment at
\* lm.py:293: a candidate stays active when its sentence has changed
index_unfixed_of_changed(p, ed_ppl) ==
    SelectSeq(UpTo(Len(p)), LAMBDA x : seed_sentences[x] # Last(edit[x]))

\* the mutant of index_unfixed_of that also keeps a score that is only equal
index_unfixed_of_le(p, ed_ppl) ==
    SelectSeq(UpTo(Len(p)), LAMBDA x : p[x] <= Last(ed_ppl[x]))

index_unfixed_of(p, ed_ppl) ==
    SelectSeq(UpTo(Len(p)), LAMBDA x : p[x] < Last(ed_ppl[x]))

\* the mutant of UpdateOutput that takes the key of the position in the active
\* list, data_key[n], instead of data_key[data_index[n]]
UpdateOutput_ByPosition(out, idx, d_index, ed, ed_ppl) ==
    LET new == {data_key(idx[j]) : j \in 1..Len(idx)}
        src(k) == idx[MaxOf({j \in 1..Len(idx) : data_key(idx[j]) = k})]
    IN [k \in (DOMAIN out) \cup new |->
          IF k \in new THEN [edit |-> ed[src(k)], ppl |-> ed_ppl[src(k)]] ELSE out[k]]

\* output_dict.update({data_key[data_index[n]]: [edit[n], edit_ppl[n]] for n in idx})
UpdateOutput(out, idx, d_index, ed, ed_ppl) ==
    LET new == {data_key(d_index[idx[j]]) : j \in 1..Len(idx)}
        src(k) == idx[MaxOf({j \in 1..Len(idx) : data_key(d_index[idx[j]]) = k})]
    IN [k \in (DOMAIN out) \cup new |->
          IF k \in new THEN [edit |-> ed[src(k)], ppl |-> ed_ppl[src(k)]] ELSE out[k]]

ExtendEdit(ed, sentences, idx) ==
    [j \in 1..Len(idx) |-> Append(ed[idx[j]], sentences[idx[j]])]

\* the mutant of ExtendPpl that keeps the histories without the new score
ExtendPpl_Keep(ed_ppl, p, idx) ==
    [j \in 1..Len(idx) |-> ed_ppl[idx[j]]]

ExtendPpl(ed_ppl, p, idx) ==
    [j \in 1..Len(idx) |-> Append(ed_ppl[idx[j]], p[idx[j]])]

(***************************************************************************)
(* The calls of generate that are explored                                 *)
(***************************************************************************)
\* (n_blank_b, n_blank, n_blank_e)
BlankConfigs == {<<0, 0, 0>>, <<0, 1, 0>>, <<1, 0, 0>>}

\* topk stays within the pool: range(_topk) indexes the topk_per_position
\* predictions of a row.  A single pair is run against every backend over Tok,
\* two pairs against every backend over PlainTok; the pairs of a call are
\* distinct, as the caller passes them (generate_prompt_analogy.py:44-45).
Inputs ==
    {[word_pairs |-> <<<<"dog", "cat">>>>,
      n_blank_b |-> c[1], n_blank |-> c[2], n_blank_e |-> c[3],
      n_revision |-> r, topk |-> k, stub |-> FALSE, tokens |-> Tok] :
        c \in BlankConfigs, r \in 0..MaxRevision, k \in 1..topk_per_position}
    \cup
    {[word_pairs |-> <<<<"dog", "cat">>, <<"cat", "dog">>>>,
      n_blank_b |-> 0, n_blank |-> 1, n_blank_e |-> 0,
      n_revision |-> r, topk |-> 1, stub |-> FALSE, tokens |-> PlainTok] :
        r \in 0..MaxRevision}

\* the end-to-end scenario: six blanks around dog and cat, topk = 1, one
\* revision round, a stub backend
InputE2E ==
    [word_pairs |-> <<<<"dog", "cat">>>>, n_blank_b |-> 2, n_blank |-> 2, n_blank_e |-> 2,
     n_revision |-> 1, topk |-> 1, stub |-> TRUE, tokens |-> Tok]

EmptyDecoded == [s1 |-> <<>>, s2 |-> <<>>, s3 |-> <<>>]

\* generate up to lm.py:259, word-pair mode
InitWith(p) ==
    /\ param = p
    /\ pc = "mask_loop"
    /\ phase = "mask"
    /\ seed_sentences =
         [x \in 1..Len(p.word_pairs) |->
            pair_to_seed(p.word_pairs[x], p.n_blank, p.n_blank_b, p.n_blank_e)]
    /\ edit = <<seed_sentences>>
    /\ edit_ppl = <<>>
    /\ ppl = <<>>
    /\ vocab_to_keep = <<>>
    /\ data_index = <<>>
    /\ output_dict = <<>>
    /\ i = 0
    /\ partition_n = 1
    /\ item = 1
    /\ topk_decoded = EmptyDecoded
    /\ greedy_filling = <<>>
    /\ err = NoError
    /\ warning = NoWarning
    /\ rounds = 0
    /\ pool = <<>>
    /\ p_length = <<>>
    /\ pool_out = <<>>

Init == \E p \in Inputs : InitWith(p)

InitE2E == InitWith(InputE2E)

(***************************************************************************)
(* replace_single_token                                                    *)
(***************************************************************************)
\* the vocab_to_keep argument of the call in progress (lm.py:267, lm.py:285)
CallVocab == IF phase = "mask" THEN param.word_pairs ELSE vocab_to_keep
VocabFor(n) == IF CallVocab = <<>> THEN <<>> ELSE CallVocab[n]

\* entering replace_single_token
EnterCall ==
    /\ pc' = "predict"
    /\ partition_n' = 1
    /\ item' = 1
    /\ topk_decoded' = EmptyDecoded
    /\ greedy_filling' = <<>>

\* lm.py:355-362 and 370-401: the model's row for one blank of candidate
\* partition_n, decoded as process_single_pair decodes it for each of the
\* three argument pairs the ladder uses
Predict ==
    /\ pc = "predict"
    /\ item <= Len(RowItems(seed_sentences[partition_n]))
    /\ \E row \in BackendRows(param.tokens, param.stub) :
         LET it == RowItems(seed_sentences[partition_n])[item]
             v == VocabFor(partition_n)
         IN topk_decoded' =
              [s1 |-> topk_decoded.s1 \o ProcessRow(it, row, param.topk, FALSE, v),
               s2 |-> topk_decoded.s2 \o ProcessRow(it, row, topk_per_position, FALSE, v),
               s3 |-> topk_decoded.s3 \o ProcessRow(it, row, topk_per_position, TRUE, v)]
    /\ item' = item + 1
    /\ UNCHANGED <<param, pool, p_length, pool_out,
                   warning, pc, phase, seed_sentences, ppl, vocab_to_keep, edit, edit_ppl,
                   data_index, output_dict, i, partition_n, greedy_filling, err, rounds>>

\* the fallback ladder, lm.py:404-408
StrictStages(d, topk) ==
    LET first == d.s1
    IN IF Len(first) = 0 /\ topk_per_position > topk THEN d.s2 ELSE first

\* the mutant of Ladder that takes the relaxed list whenever it has an entry
Ladder_RelaxedFirst(d, topk) ==
    IF Len(d.s3) = 0 THEN StrictStages(d, topk) ELSE d.s3

Ladder(d, topk) ==
    IF Len(StrictStages(d, topk)) = 0 THEN d.s3 ELSE StrictStages(d, topk)

\* the mutant of SubwordWarning that warns whenever the relaxed list has an entry
SubwordWarning_Always(d, topk, vocab, n) ==
    IF Len(d.s3) # 0 /\ vocab # <<>>
    THEN [edit |-> d.s3[1].sent, vocab |-> vocab[n]] ELSE NoWarning

\* lm.py:409-411: logged only inside `if len(topk_edit) == 0:` of lm.py:407
SubwordWarning(d, topk, vocab, n) ==
    IF Len(StrictStages(d, topk)) = 0 /\ Len(d.s3) # 0 /\ vocab # <<>>
    THEN [edit |-> d.s3[1].sent, vocab |-> vocab[n]] ELSE NoWarning

\* the mutant of NoValidSentence that always names the first candidate
NoValidSentence_First(vocab, sentences, n) ==
    [type |-> "ValueError", vocab |-> vocab[1], prompt |-> sentences[1]]

\* the ValueError of lm.py:413-415
NoValidSentence(vocab, sentences, n) ==
    [type |-> "ValueError", vocab |-> vocab[n], prompt |-> sentences[n]]

\* lm.py:404-422 for candidate partition_n
Filter ==
    /\ pc = "predict"
    /\ item > Len(RowItems(seed_sentences[partition_n]))
    /\ warning' = SubwordWarning(topk_decoded, param.topk, CallVocab, partition_n)
    /\ LET topk_edit == Ladder(topk_decoded, param.topk)
       IN IF Len(topk_edit) = 0
          THEN /\ pc' = "error"
               /\ err' = NoValidSentence(CallVocab, seed_sentences, partition_n)
               /\ UNCHANGED <<greedy_filling, partition_n, item, topk_decoded>>
          ELSE /\ \E short \in Shortlists(DropDuplicated(topk_edit), param.topk) :
                    greedy_filling' = Append(greedy_filling, short)
               /\ pc' = IF partition_n = Len(seed_sentences) THEN "rerank" ELSE "predict"
               /\ partition_n' = partition_n + 1
               /\ item' = 1
               /\ topk_decoded' = EmptyDecoded
               /\ err' = err
    /\ UNCHANGED <<param, pool, p_length, pool_out,
                   phase, seed_sentences, ppl, vocab_to_keep, edit, edit_ppl,
                   data_index, output_dict, i, rounds>>

\* get_perplexity is a function of the sentence: a sentence the candidate's
\* history holds gets the score recorded with it
Recorded(c, s) ==
    IF phase = "revise" /\ c <= Len(edit_ppl)
    THEN {edit_ppl[c][j - 1] : j \in {h \in 2..Len(edit[c]) : edit[c][h] = s /\ h - 1 <= Len(edit_ppl[c])}}
    ELSE {}

PplChoice(c, s) ==
    IF param.stub THEN {StubPpl(s)}
    ELSE IF Recorded(c, s) # {} THEN Recorded(c, s) ELSE PplValues

\* the candidate a position of the flattened list belongs to
GroupOf(partition, f) == CHOOSE c \in 1..Len(partition) : partition[c][1] < f /\ f <= partition[c][2]

\* lm.py:424-440
Rerank ==
    /\ pc = "rerank"
    /\ LET partition == get_partition(greedy_filling)
           flat == Chain(greedy_filling)
           scores == UNION {PplChoice(GroupOf(partition, f), flat[f]) : f \in 1..Len(flat)}
       IN \E flat_ppl \in [1..Len(flat) -> scores] :
            /\ \A f \in 1..Len(flat) : flat_ppl[f] \in PplChoice(GroupOf(partition, f), flat[f])
            /\ LET list_ppl == [c \in 1..Len(partition) |->
                                  Slice(flat_ppl, partition[c][1], partition[c][2])]
               IN /\ seed_sentences' = [c \in 1..Len(greedy_filling) |->
                                           best_edit_of(greedy_filling[c], list_ppl[c])]
                  /\ ppl' = [c \in 1..Len(greedy_filling) |-> best_ppl_of(list_ppl[c])]
    /\ pc' = IF phase = "mask" THEN "append" ELSE "update"
    /\ UNCHANGED <<param, pool, p_length, pool_out,
                   warning, phase, vocab_to_keep, edit, edit_ppl, data_index, output_dict, i,
                   partition_n, item, topk_decoded, greedy_filling, err, rounds>>

(***************************************************************************)
(* generate: the blank-filling loop (lm.py:260-275)                        *)
(***************************************************************************)
AnyWithoutMask == \E x \in 1..Len(seed_sentences) : ~HasMask(seed_sentences[x])
AllWithoutMask == \A x \in 1..Len(seed_sentences) : ~HasMask(seed_sentences[x])

\* lm.py:261, 265-267: every sentence still has a blank, fill one more
StartMaskRound ==
    /\ pc = "mask_loop"
    /\ ~AnyWithoutMask
    /\ EnterCall
    /\ UNCHANGED <<param, pool, p_length, pool_out,
                   warning, phase, seed_sentences, ppl, vocab_to_keep, edit, edit_ppl,
                   data_index, output_dict, i, err, rounds>>

\* lm.py:268-269
AppendMask ==
    /\ pc = "append"
    /\ edit' = Append(edit, seed_sentences)
    /\ edit_ppl' = Append(edit_ppl, ppl)
    /\ pc' = "mask_loop"
    /\ UNCHANGED <<param, pool, p_length, pool_out,
                   warning, phase, seed_sentences, ppl, vocab_to_keep, data_index,
                   output_dict, i, partition_n, item, topk_decoded, greedy_filling,
                   err, rounds>>

\* lm.py:261-264 and 271-285: the blanks are filled; the histories are turned
\* from one list per round into one tuple per candidate and the first revision
\* round is started
\* what input() of lm.py:276 finds on standard input: a line, or its end
StandardInput == {"line", "EOF"}

FinishMask ==
    /\ pc = "mask_loop"
    /\ AnyWithoutMask
    /\ IF ~AllWithoutMask
       THEN /\ pc' = "error"
            /\ err' = [type |-> "AssertionError", vocab |-> <<>>, prompt |-> <<>>]
            /\ UNCHANGED <<phase, vocab_to_keep, edit, edit_ppl, data_index, output_dict,
                           i, partition_n, item, topk_decoded, greedy_filling, rounds>>
       ELSE \E line \in StandardInput :
            /\ edit' = Zip(edit)
            /\ edit_ppl' = Zip(edit_ppl)
            /\ vocab_to_keep' = IF vocab_to_keep = <<>> THEN param.word_pairs ELSE vocab_to_keep
            /\ phase' = "revise"
            /\ IF line = "EOF"
               THEN /\ pc' = "error"
                    /\ err' = [type |-> "EOFError", vocab |-> <<>>, prompt |-> <<>>]
                    /\ UNCHANGED <<data_index, output_dict, i, partition_n, item,
                                   topk_decoded, greedy_filling, rounds>>
               ELSE /\ output_dict' = <<>>
                    /\ data_index' = [k \in 1..Len(param.word_pairs) |-> k]
                    /\ i' = 0
                    /\ rounds' = 1
                    /\ EnterCall
                    /\ err' = err
    /\ UNCHANGED <<param, pool, p_length, pool_out,
                   warning, seed_sentences, ppl>>

(***************************************************************************)
(* generate: the revision loop (lm.py:282-313)                             *)
(***************************************************************************)
\* edit_ppl[x][-1] of lm.py:292 (and edit_ppl[n] of lm.py:289) has nothing to read
NoScoreToRead ==
    \E x \in 1..Len(seed_sentences) : x > Len(edit_ppl) \/ Len(edit_ppl[x]) = 0

\* lm.py:303-307
LoopBreaks(n_active, round_i, n_revision) == n_active = 0 \/ round_i > n_revision

\* lm.py:287-309 after replace_single_token has returned
ReviseUpdate ==
    /\ pc = "update"
    /\ IF NoScoreToRead
       THEN /\ pc' = "error"
            /\ err' = [type |-> "IndexError", vocab |-> <<>>, prompt |-> <<>>]
            /\ output_dict' =
                 LET index_fixed == index_fixed_of(seed_sentences, edit)
                 IN IF \A n \in Range(index_fixed) : n <= Len(edit_ppl)
                    THEN UpdateOutput(output_dict, index_fixed, data_index, edit, edit_ppl)
                    ELSE output_dict
            /\ UNCHANGED <<seed_sentences, ppl, vocab_to_keep, edit, edit_ppl, data_index,
                           i, partition_n, item, topk_decoded, greedy_filling, rounds>>
       ELSE LET index_fixed == index_fixed_of(seed_sentences, edit)
                index_unfixed == index_unfixed_of(ppl, edit_ppl)
            IN /\ output_dict' = UpdateOutput(output_dict, index_fixed, data_index, edit, edit_ppl)
               /\ edit' = ExtendEdit(edit, seed_sentences, index_unfixed)
               /\ edit_ppl' = ExtendPpl(edit_ppl, ppl, index_unfixed)
               /\ seed_sentences' = Pick(seed_sentences, index_unfixed)
               /\ ppl' = Pick(ppl, index_unfixed)
               /\ data_index' = Pick(data_index, index_unfixed)
               /\ vocab_to_keep' = IF vocab_to_keep # <<>>
                                   THEN Pick(vocab_to_keep, index_unfixed)
                                   ELSE vocab_to_keep
               /\ err' = err
               /\ IF LoopBreaks(Len(index_unfixed), i, param.n_revision)
                  THEN /\ pc' = "finalize"
                       /\ UNCHANGED <<i, rounds, partition_n, item, topk_decoded,
                                      greedy_filling>>
                  ELSE /\ i' = i + 1
                       /\ rounds' = rounds + 1
                       /\ EnterCall
    /\ UNCHANGED <<param, pool, p_length, pool_out,
                   warning, phase>>

\* the mutant of ForceFinalize that leaves the remaining candidates out
ForceFinalize_Skip(out, d_index, ed, ed_ppl) == out

\* lm.py:311
ForceFinalize(out, d_index, ed, ed_ppl) ==
    UpdateOutput(out, [n \in 1..Len(d_index) |-> n], d_index, ed, ed_ppl)

\* lm.py:311-313
Return ==
    /\ pc = "finalize"
    /\ output_dict' = ForceFinalize(output_dict, data_index, edit, edit_ppl)
    /\ pc' = "done"
    /\ UNCHANGED <<param, pool, p_length, pool_out,
                   warning, phase, seed_sentences, ppl, vocab_to_keep, edit, edit_ppl,
                   data_index, i, partition_n, item, topk_decoded, greedy_filling,
                   err, rounds>>

(***************************************************************************)
(* generate called with seed sentences (lm.py:239-249, 275-281)            *)
(***************************************************************************)
\* the calls with seed_sentences that are explored; word_pairs is None (the
\* default, test_lm.py:22) or an empty list
InputsSeed ==
    {[seed_sentences |-> c[1], vocab_to_keep |-> c[2], word_pairs_none |-> n,
      n_revision |-> r, topk |-> k, stub |-> FALSE, tokens |-> Tok] :
        c \in {<<<< <<"dog", "is", "cat">> >>, << <<"dog", "cat">> >>>>,
               <<<< <<"dog", MASK, "cat">> >>, << <<"dog", "cat">> >>>>,
               <<<< <<"dog", "cat">>, <<"cat", "dog">> >>,
                 << <<"dog", "cat">>, <<"cat", "dog">> >>>>},
        n \in BOOLEAN, r \in 0..MaxRevision, k \in 1..topk_per_position}

InitSeed ==
    /\ param \in InputsSeed
    /\ pc = "start"
    /\ phase = "revise"
    /\ seed_sentences = param.seed_sentences
    /\ edit = <<>>
    /\ edit_ppl = <<>>
    /\ ppl = <<>>
    /\ vocab_to_keep = param.vocab_to_keep
    /\ data_index = <<>>
    /\ output_dict = <<>>
    /\ i = 0
    /\ partition_n = 1
    /\ item = 1
    /\ topk_decoded = EmptyDecoded
    /\ greedy_filling = <<>>
    /\ err = NoError
    /\ warning = NoWarning
    /\ rounds = 0
    /\ pool = <<>>
    /\ p_length = <<>>
    /\ pool_out = <<>>

\* lm.py:239-249 and 275-281: the seed_sentences branch up to the first round
SeedStart ==
    /\ pc = "start"
    /\ IF param.word_pairs_none
       THEN \* print(len(word_pairs)) of lm.py:240 with word_pairs = None
            /\ pc' = "error"
            /\ err' = [type |-> "TypeError", vocab |-> <<>>, prompt |-> <<>>]
            /\ UNCHANGED <<edit, edit_ppl, data_index, output_dict, i, partition_n, item,
                           topk_decoded, greedy_filling, rounds>>
       ELSE \E line \in StandardInput :
            /\ edit' = [x \in 1..Len(seed_sentences) |-> <<seed_sentences[x]>>]
            /\ edit_ppl' = [x \in 1..Len(seed_sentences) |-> <<>>]
            /\ IF line = "EOF"
               THEN /\ pc' = "error"
                    /\ err' = [type |-> "EOFError", vocab |-> <<>>, prompt |-> <<>>]
                    /\ UNCHANGED <<data_index, output_dict, i, partition_n, item,
                                   topk_decoded, greedy_filling, rounds>>
               ELSE /\ output_dict' = <<>>
                    /\ data_index' = [k \in 1..Len(seed_sentences) |-> k]
                    /\ i' = 0
                    /\ rounds' = 1
                    /\ EnterCall
                    /\ err' = err
    /\ UNCHANGED <<param, pool, p_length, pool_out,
                   warning, phase, seed_sentences, ppl, vocab_to_keep>>

\* the steps of a call with seed sentences: the blank-filling loop belongs to
\* the word_pairs branch, and the loop is never left for lm.py:311-313, as
\* ReviseUpdate ends every first round in pc = "error" (SeedNeverReturns)
NextSeed ==
    \/ SeedStart
    \/ Predict
    \/ Filter
    \/ Rerank
    \/ ReviseUpdate

(***************************************************************************)
(* get_encoding / EncodePlus with a maximum length (lm.py:34-37, 87-125),  *)
(* as replace_single_token (lm.py:346) and get_perplexity (lm.py:452) call *)
(* it on their list of sentences                                           *)
(***************************************************************************)
MaxWords == 4        \* sentences of 1..MaxWords words are encoded
MaxLength == 6       \* max_length ranges over 4..MaxLength

PAD == "<pad>"

\* tokenizer.encode_plus(sentence, max_length, truncation=True,
\* padding='max_length'): always max_length ids
encode_plus(s, max_length) ==
    IF Len(s) + Len(sp_token_prefix) + 1 > max_length
    THEN sp_token_prefix \o SubSeq(s, 1, max_length - Len(sp_token_prefix) - 1) \o <<SEP>>
    ELSE Encode(s) \o Rep(PAD, max_length - Len(s) - Len(sp_token_prefix) - 1)

\* the mutant of WithinMaxLength that takes every encoding
WithinMaxLength_Any(ids) == TRUE

\* encode['input_ids'][-1] == self.tokenizer.pad_token_id (lm.py:104, 117)
WithinMaxLength(ids) == Last(ids) = PAD

\* the sentences EncodePlus.__call__ hands to encode_plus for one sentence:
\* the sentence itself, or one copy for each of its words, that word masked
EncodeInputs(s, token_wise_mask, max_length) ==
    IF ~token_wise_mask
    THEN <<s>>
    ELSE LET length == IF max_length - Len(sp_token_prefix) < Len(s)
                       THEN max_length - Len(sp_token_prefix) ELSE Len(s)
             at == SelectSeq(UpTo(length), LAMBDA p : s[p] # MASK)
         IN [j \in 1..Len(at) |-> [s EXCEPT ![at[j]] = MASK]]

\* lm.py:96-99
TokenWise(s) == IF param.token_wise_mask THEN TRUE ELSE ~HasMask(s)

SentencesOfWords ==
    {Rep("a", n) : n \in 1..MaxWords} \cup {<<MASK>> \o Rep("a", n) : n \in 1..(MaxWords - 1)}

\* a call of get_perplexity (token_wise_mask = True) or the encoding step of
\* replace_single_token (token_wise_mask = None, here FALSE) on one or two
\* sentences
InputsLen ==
    {[sentences |-> l, max_length |-> m, token_wise_mask |-> t] :
        l \in {<<a>> : a \in SentencesOfWords}
              \cup {<<a, b>> : a \in SentencesOfWords, b \in SentencesOfWords},
        m \in 4..MaxLength, t \in BOOLEAN}

InitLen ==
    /\ param \in InputsLen
    /\ pc = "encode"
    /\ phase = "revise"
    /\ seed_sentences = param.sentences
    /\ edit = <<>>
    /\ edit_ppl = <<>>
    /\ ppl = <<>>
    /\ vocab_to_keep = <<>>
    /\ data_index = <<>>
    /\ output_dict = <<>>
    /\ i = 0
    /\ partition_n = 1
    /\ item = 1
    /\ topk_decoded = EmptyDecoded
    /\ greedy_filling = <<>>
    /\ err = NoError
    /\ warning = NoWarning
    /\ rounds = 0
    /\ pool = <<>>
    /\ p_length = <<>>
    /\ pool_out = <<>>

\* EncodePlus.__call__ on sentence partition_n (one task of pool_map); the
\* encodings are collected in greedy_filling
EncodeSentence ==
    /\ pc = "encode"
    /\ partition_n <= Len(seed_sentences)
    /\ LET s == seed_sentences[partition_n]
           inputs == EncodeInputs(s, TokenWise(s), param.max_length)
           encoded == [j \in 1..Len(inputs) |-> encode_plus(inputs[j], param.max_length)]
       IN IF \E j \in 1..Len(encoded) : ~WithinMaxLength(encoded[j])
          THEN /\ pc' = "error"
               /\ err' = [type |-> "AssertionError", vocab |-> <<>>, prompt |-> s]
               /\ UNCHANGED <<greedy_filling, partition_n>>
          ELSE /\ greedy_filling' = Append(greedy_filling, encoded)
               /\ partition_n' = partition_n + 1
               /\ UNCHANGED <<pc, err>>
    /\ UNCHANGED <<param, pool, p_length, pool_out,
                   warning, phase, seed_sentences, ppl, vocab_to_keep, edit, edit_ppl,
                   data_index, output_dict, i, item, topk_decoded, rounds>>

\* the model is run on the encodings once every sentence is encoded
\* (lm.py:347-362, 453-472); one result for each sentence
ScoreEncoded ==
    /\ pc = "encode"
    /\ partition_n > Len(seed_sentences)
    /\ ppl' \in [1..Len(seed_sentences) -> PplValues]
    /\ pc' = "done"
    /\ UNCHANGED <<param, pool, p_length, pool_out,
                   warning, phase, seed_sentences, vocab_to_keep, edit, edit_ppl,
                   data_index, output_dict, i, partition_n, item, topk_decoded,
                   greedy_filling, err, rounds>>

NextLen == EncodeSentence \/ ScoreEncoded

(***************************************************************************)
(* decode_topk's vocabulary test on its own (lm.py:380-394)                *)
(***************************************************************************)
MaxDecoded == 3      \* decoded sentences of 1..MaxDecoded words are tested

DecodedSentences ==
    UNION {[1..n -> {"dog", "cat", "cats", "is", MASK}] : n \in 1..MaxDecoded}

InputsCheck ==
    {[decoded |-> d, v |-> v, allow_subword |-> a] :
        d \in DecodedSentences, v \in {<<"cat">>, <<"dog", "cat">>}, a \in BOOLEAN}

InitCheck ==
    /\ param \in InputsCheck
    /\ pc = "decode_topk"
    /\ phase = "revise"
    /\ seed_sentences = <<>>
    /\ edit = <<>>
    /\ edit_ppl = <<>>
    /\ ppl = <<>>
    /\ vocab_to_keep = <<param.v>>
    /\ data_index = <<>>
    /\ output_dict = <<>>
    /\ i = 0
    /\ partition_n = 1
    /\ item = 1
    /\ topk_decoded = EmptyDecoded
    /\ greedy_filling = <<>>
    /\ err = NoError
    /\ warning = NoWarning
    /\ rounds = 0
    /\ pool = <<>>
    /\ p_length = <<>>
    /\ pool_out = <<>>

\* decode_topk returns the decoded sentence, or None (lm.py:380-396)
DecodeReturns ==
    /\ pc = "decode_topk"
    /\ pc' = IF Admissible(param.decoded, vocab_to_keep[partition_n], param.allow_subword)
             THEN "decoded" ELSE "None"
    /\ UNCHANGED <<param, pool, p_length, pool_out,
                   warning, phase, seed_sentences, ppl, vocab_to_keep, edit, edit_ppl,
                   data_index, output_dict, i, partition_n, item, topk_decoded,
                   greedy_filling, err, rounds>>

NextCheck == DecodeReturns

(***************************************************************************)
(* De-duplication, shortlist and re-ranking of one candidate on their own  *)
(* (lm.py:416-422, 426-432)                                                *)
(***************************************************************************)
MaxEdits == 3        \* topk_edit has 1..MaxEdits entries
MaxLik == 3          \* likelihoods range over 1..MaxLik

EditSentences == {<<"dog", "is", "cat">>, <<"dog", "a", "cat">>}

\* the admissible fills of a candidate, topk, and the perplexity the backend
\* gives each sentence
InputsShortlist ==
    {[topk_edit |-> l, topk |-> k, perplexity |-> f] :
        l \in UNION {[1..n -> [sent : EditSentences, lik : 1..MaxLik]] : n \in 1..MaxEdits},
        k \in 1..topk_per_position,
        f \in [EditSentences -> 1..2]}

InitShortlist ==
    /\ param \in InputsShortlist
    /\ pc = "shortlist"
    /\ phase = "revise"
    /\ seed_sentences = <<>>
    /\ edit = <<>>
    /\ edit_ppl = <<>>
    /\ ppl = <<>>
    /\ vocab_to_keep = <<>>
    /\ data_index = <<>>
    /\ output_dict = <<>>
    /\ i = 0
    /\ partition_n = 1
    /\ item = 1
    /\ topk_decoded = [EmptyDecoded EXCEPT !.s1 = param.topk_edit]
    /\ greedy_filling = <<>>
    /\ err = NoError
    /\ warning = NoWarning
    /\ rounds = 0
    /\ pool = <<>>
    /\ p_length = <<>>
    /\ pool_out = <<>>

\* lm.py:416-422
BuildShortlist ==
    /\ pc = "shortlist"
    /\ \E short \in Shortlists(DropDuplicated(topk_decoded.s1), param.topk) :
         greedy_filling' = Append(greedy_filling, short)
    /\ pc' = "rerank"
    /\ UNCHANGED <<param, pool, p_length, pool_out,
                   warning, phase, seed_sentences, ppl, vocab_to_keep, edit,
                   edit_ppl, data_index, output_dict, i, partition_n, item,
                   topk_decoded, err, rounds>>

\* lm.py:425-432, the scores of the shortlist kept in edit_ppl
RerankShortlist ==
    /\ pc = "rerank"
    /\ LET list_ppl == [c \in 1..Len(greedy_filling) |->
                          [j \in 1..Len(greedy_filling[c]) |->
                             param.perplexity[greedy_filling[c][j]]]]
       IN /\ edit_ppl' = list_ppl
          /\ seed_sentences' = [c \in 1..Len(greedy_filling) |->
                                  best_edit_of(greedy_filling[c], list_ppl[c])]
          /\ ppl' = [c \in 1..Len(greedy_filling) |-> best_ppl_of(list_ppl[c])]
    /\ pc' = "done"
    /\ UNCHANGED <<param, pool, p_length, pool_out,
                   warning, phase, vocab_to_keep, edit, data_index, output_dict,
                   i, partition_n, item, topk_decoded, greedy_filling, err, rounds>>

NextShortlist == BuildShortlist \/ RerankShortlist

(***************************************************************************)
(* get_partition and the regrouping of a flat list on their own            *)
(* (lm.py:21-47, 425-427; run_analogy.py:82-84)                            *)
(***************************************************************************)
MaxGroups == 3       \* the nested list has 0..MaxGroups groups
MaxGroupLen == 2     \* every group has 0..MaxGroupLen items

\* a nested list of the given group lengths; its items are numbered 1, 2, ...
\* through the groups, so that every item is told apart from every other
NestedList(lengths) ==
    [x \in 1..Len(lengths) |-> [j \in 1..lengths[x] |-> SumTo(lengths, x - 1) + j]]

\* the score the backend gives an item
ScoreOf(it) == 1 + (it % MaxPpl)

\* the nested lists handed to get_partition
InputsPartition ==
    {[_list |-> NestedList(l)] :
        l \in UNION {[1..n -> 0..MaxGroupLen] : n \in 0..MaxGroups}}

InitPartition ==
    /\ param \in InputsPartition
    /\ pc = "length"
    /\ phase = "revise"
    /\ seed_sentences = <<>>
    /\ edit = <<>>
    /\ edit_ppl = <<>>
    /\ ppl = <<>>
    /\ vocab_to_keep = <<>>
    /\ data_index = <<>>
    /\ output_dict = <<>>
    /\ i = 0
    /\ partition_n = 1
    /\ item = 1
    /\ topk_decoded = EmptyDecoded
    /\ greedy_filling = param._list
    /\ err = NoError
    /\ warning = NoWarning
    /\ rounds = 0
    /\ pool = <<>>
    /\ p_length = <<>>
    /\ pool_out = <<>>

\* the tasks whose result the pool already holds
Finished == {pool[k].task : k \in 1..Len(pool)}

\* what the pool holds for task x
ResultOf(x) == pool[CHOOSE k \in 1..Len(pool) : pool[k].task = x].result

\* the mutant of pool_map that returns the results as the workers delivered them
pool_map_ArrivalOrder(n) == [k \in 1..n |-> pool[k].result]

\* Pool.map: the result of task x at position x (lm.py:21-25)
pool_map(n) == [x \in 1..n |-> ResultOf(x)]

\* Partition.__call__(x) on the 0-based x (lm.py:46-47)
Partition_call(x) == <<SumTo(p_length, x), SumTo(p_length, x + 1)>>

\* a worker of pool_map(len, _list) delivers the length of one group (lm.py:44)
LenWorker ==
    /\ pc = "length"
    /\ \E x \in (1..Len(greedy_filling)) \ Finished :
         pool' = Append(pool, [task |-> x, result |-> Len(greedy_filling[x])])
    /\ UNCHANGED <<param, p_length, pool_out, warning, pc, phase, seed_sentences, ppl,
                   vocab_to_keep, edit, edit_ppl, data_index, output_dict, i,
                   partition_n, item, topk_decoded, greedy_filling, err, rounds>>

\* Partition.__init__ gets the lengths from the pool (lm.py:43-44)
LenGather ==
    /\ pc = "length"
    /\ Finished = 1..Len(greedy_filling)
    /\ p_length' = pool_map(Len(greedy_filling))
    /\ pool' = <<>>
    /\ pc' = "call"
    /\ UNCHANGED <<param, pool_out, warning, phase, seed_sentences, ppl,
                   vocab_to_keep, edit, edit_ppl, data_index, output_dict, i,
                   partition_n, item, topk_decoded, greedy_filling, err, rounds>>

\* a worker of pool_map(p, range(len(_list))) delivers one range (lm.py:31)
CallWorker ==
    /\ pc = "call"
    /\ \E x \in (1..Len(greedy_filling)) \ Finished :
         pool' = Append(pool, [task |-> x, result |-> Partition_call(x - 1)])
    /\ UNCHANGED <<param, p_length, pool_out, warning, pc, phase, seed_sentences, ppl,
                   vocab_to_keep, edit, edit_ppl, data_index, output_dict, i,
                   partition_n, item, topk_decoded, greedy_filling, err, rounds>>

\* get_partition returns the out of pool_map (lm.py:21-25, 31)
CallGather ==
    /\ pc = "call"
    /\ Finished = 1..Len(greedy_filling)
    /\ pool_out' = pool_map(Len(greedy_filling))
    /\ pc' = "regroup"
    /\ UNCHANGED <<param, pool, p_length, warning, phase, seed_sentences, ppl,
                   vocab_to_keep, edit, edit_ppl, data_index, output_dict, i,
                   partition_n, item, topk_decoded, greedy_filling, err, rounds>>

\* [flat[s:e] for s, e in partition], for the flat list itself (kept in edit)
\* and for the flat list of scores (kept in edit_ppl) (lm.py:425-427)
Regroup ==
    /\ pc = "regroup"
    /\ LET flat == Chain(greedy_filling)
           list_ppl == [f \in 1..Len(flat) |-> ScoreOf(flat[f])]
       IN /\ edit' = [c \in 1..Len(pool_out) |->
                        Slice(flat, pool_out[c][1], pool_out[c][2])]
          /\ edit_ppl' = [c \in 1..Len(pool_out) |->
                            Slice(list_ppl, pool_out[c][1], pool_out[c][2])]
    /\ pc' = "done"
    /\ UNCHANGED <<param, pool, p_length, pool_out, warning, phase, seed_sentences, ppl,
                   vocab_to_keep, data_index, output_dict, i,
                   partition_n, item, topk_decoded, greedy_filling, err, rounds>>

NextPartition == LenWorker \/ LenGather \/ CallWorker \/ CallGather \/ Regroup

(***************************************************************************)
(* The blank-filling phase on its own, against a backend that ranks every  *)
(* token of its vocabulary, the mask token and a special token included    *)
(* (lm.py:254-272, 355-362)                                                *)
(***************************************************************************)
MaxBlankRounds == 3      \* rounds of the blank-filling loop that are followed

\* the tokens the backend ranks: prediction_scores.topk ranges over the whole
\* vocabulary (lm.py:359)
BlankTok == {"is", "a", MASK, SEP}

BlankPhaseConfigs == {<<0, 0, 0>>, <<0, 1, 0>>, <<1, 1, 0>>, <<0, 1, 1>>}

InputsBlank ==
    {[word_pairs |-> <<<<"dog", "cat">>>>,
      n_blank_b |-> c[1], n_blank |-> c[2], n_blank_e |-> c[3],
      n_revision |-> 0, topk |-> k, stub |-> FALSE, tokens |-> BlankTok] :
        c \in BlankPhaseConfigs, k \in 1..topk_per_position}
    \cup
    {[word_pairs |-> <<<<"dog", "cat">>, <<"cat", "dog">>>>,
      n_blank_b |-> 0, n_blank |-> 1, n_blank_e |-> 0,
      n_revision |-> 0, topk |-> 1, stub |-> FALSE, tokens |-> BlankTok]}

InitBlank == \E p \in InputsBlank : InitWith(p)

\* the loop of lm.py:260-269, followed for MaxBlankRounds rounds
NextBlank ==
    \/ Len(edit_ppl) < MaxBlankRounds /\ StartMaskRound
    \/ phase = "mask" /\ Predict
    \/ phase = "mask" /\ Filter
    \/ phase = "mask" /\ Rerank
    \/ AppendMask
    \/ FinishMask

Next ==
    \/ StartMaskRound
    \/ Predict
    \/ Filter
    \/ Rerank
    \/ AppendMask
    \/ FinishMask
    \/ ReviseUpdate
    \/ Return

Spec == Init /\ [][Next]_vars

SpecE2E == InitE2E /\ [][Next]_vars

SpecSeed == InitSeed /\ [][NextSeed]_vars

SpecPartition == InitPartition /\ [][NextPartition]_vars

SpecBlank == InitBlank /\ [][NextBlank]_vars

SpecLen == InitLen /\ [][NextLen]_vars

SpecCheck == InitCheck /\ [][NextCheck]_vars

SpecShortlist == InitShortlist /\ [][NextShortlist]_vars

(***************************************************************************)
(* Claims                                                                  *)
(***************************************************************************)
Active == 1..Len(seed_sentences)
Keys == {data_key(k) : k \in 1..Len(param.word_pairs)}
Blanks == param.n_blank_b + param.n_blank + param.n_blank_e
Entry(x) == [edit |-> edit[x], ppl |-> edit_ppl[x]]
\* the scores recorded for candidate x so far (none when zip left no tuple)
ScoreHistory(x) == IF x <= Len(edit_ppl) THEN edit_ppl[x] ELSE <<>>
\* ReviseUpdate has run without an exception
Revised == pc = "update" /\ pc' # "error" /\ pc' # "update"

\* C1: when generate returns, every input word pair has an entry of the
\* returned map under its key
C1_EveryCandidateReturned ==
    pc = "done" => \A k \in Keys : k \in DOMAIN output_dict

\* C2: the revision loop calls replace_single_token at most n_revision + 1 times
C2_AtMostRevisionPlusOne == rounds <= param.n_revision + 1

\* C3: for every candidate the score history has exactly one element fewer
\* than the edit history, in the blank-filling phase (one list per round), in
\* the revision phase (one tuple per candidate) and in every output entry
C3_ScoreOneShorter ==
    /\ phase = "mask" => Len(edit_ppl) = Len(edit) - 1
    /\ phase = "revise" =>
         \A x \in 1..Len(edit) : Len(ScoreHistory(x)) = Len(edit[x]) - 1
    /\ \A k \in DOMAIN output_dict :
         Len(output_dict[k].ppl) = Len(output_dict[k].edit) - 1

\* C3 witness: generate has returned an entry that the blank-filling phase and
\* a revision round have both extended
C3_Witness ==
    /\ pc = "done"
    /\ \E k \in DOMAIN output_dict : Len(output_dict[k].edit) > Blanks + 1

\* what a ReviseUpdate step does with a candidate whose sentence is unchanged
C4_Step ==
    /\ Revised =>
         \A x \in Active :
            seed_sentences[x] = Last(edit[x]) =>
               /\ data_key(data_index[x]) \in DOMAIN output_dict'
               /\ output_dict'[data_key(data_index[x])] = Entry(x)
               /\ data_index[x] \notin Range(data_index')
    /\ phase = "revise" => Range(data_index') \subseteq Range(data_index)

\* C4: a candidate whose best sentence equals its last snapshot is written to
\* the output map under its key with the histories it had before the round and
\* leaves the active set; the active set never takes a candidate back
C4_FixedIsFinalized == [][C4_Step]_vars

\* C4 witness: one candidate has been written to the output map and another
\* one is in a later round
C4_Witness ==
    /\ phase = "revise" /\ pc = "predict" /\ rounds > 1
    /\ \E k \in DOMAIN output_dict : Len(output_dict[k].edit) = Blanks + 1
    /\ Len(data_index) > 0

\* the position candidate x of this round has in the next round's active list
NextPosition(x) == CHOOSE y \in 1..Len(data_index') : data_index'[y] = data_index[x]
\* the scores of a history are strictly decreasing from the first revision on
RevisionDecreasing(h) ==
    \A j \in (Blanks + 1)..Len(h) : j > 1 => h[j] < h[j - 1]

\* what a ReviseUpdate step does with a candidate whose sentence has changed
C5_Step ==
    Revised =>
       \A x \in Active :
          seed_sentences[x] # Last(edit[x]) =>
             /\ data_index[x] \in Range(data_index') <=> ppl[x] < Last(edit_ppl[x])
             /\ data_index[x] \in Range(data_index') =>
                  /\ edit'[NextPosition(x)] = Append(edit[x], seed_sentences[x])
                  /\ edit_ppl'[NextPosition(x)] = Append(edit_ppl[x], ppl[x])
\* the scores appended by the revision loop
C5_Decreasing ==
    /\ phase = "revise" => \A x \in 1..Len(edit_ppl) : RevisionDecreasing(edit_ppl[x])
    /\ \A k \in DOMAIN output_dict : RevisionDecreasing(output_dict[k].ppl)

\* C5: a candidate whose best sentence differs from its last snapshot stays
\* active exactly when its new perplexity is strictly lower than its last
\* score; then exactly one snapshot and one score are appended, so the scores
\* appended by the revision loop are strictly decreasing
C5_ImprovedStaysActive == [][C5_Step]_vars /\ []C5_Decreasing

\* C5 witness: a candidate has been revised twice, each time to a sentence of
\* strictly lower perplexity
C5_Witness ==
    /\ phase = "revise" /\ pc = "predict"
    /\ \E x \in 1..Len(edit_ppl) :
         /\ Len(edit_ppl[x]) = Blanks + 2
         /\ edit[x][Len(edit[x])] # edit[x][Len(edit[x]) - 1]

\* when the loop is left, and what the final update writes
C6_Step ==
    /\ Revised =>
         /\ pc' = "finalize" <=> (seed_sentences' = <<>> \/ i > param.n_revision)
         /\ pc' = "finalize" =>
              \A y \in 1..Len(data_index') :
                 /\ Last(edit'[y]) = seed_sentences'[y]
                 /\ Last(edit_ppl'[y]) = ppl'[y]
    /\ pc = "finalize" /\ pc' = "done" =>
         \A x \in 1..Len(data_index) :
            /\ data_key(data_index[x]) \in DOMAIN output_dict'
            /\ output_dict'[data_key(data_index[x])] = Entry(x)

C7_Step ==
    \A k \in DOMAIN output_dict :
       k \in DOMAIN output_dict' /\ output_dict'[k] = output_dict[k]

\* C7: an entry of the output map is never removed, changed or overwritten
C7_OutputWrittenOnce == [][C7_Step]_vars

\* C7 witness: generate has returned two entries written in different rounds
C7_Witness ==
    /\ pc = "done"
    /\ \E k1, k2 \in DOMAIN output_dict :
         Len(output_dict[k1].edit) < Len(output_dict[k2].edit)

\* the sentences appended to the histories so far, each with the constraint
\* vocabulary of its candidate
Appended ==
    (IF phase = "mask"
     THEN {<<edit[r][x], param.word_pairs[x]>> :
             r \in 2..Len(edit), x \in 1..Len(param.word_pairs)}
     ELSE UNION {{<<edit[x][j], vocab_to_keep[x]>> : j \in 2..Len(edit[x])} :
                   x \in 1..Len(edit)})
    \cup UNION {{<<output_dict[data_key(k)].edit[j], param.word_pairs[k]>> :
                   j \in 2..Len(output_dict[data_key(k)].edit)} :
                 k \in {n \in 1..Len(param.word_pairs) : data_key(n) \in DOMAIN output_dict}}
\* the words of a sentence that are the term, and the words that hold it
AsWord(t, s) == {p \in 1..Len(s) : s[p] = t}
InsideWord(t, s) == {p \in 1..Len(s) : InWord(t, s[p])}

AllStagesEmpty ==
    /\ pc = "predict"
    /\ item > Len(RowItems(seed_sentences[partition_n]))
    /\ topk_decoded.s1 = <<>> /\ topk_decoded.s2 = <<>> /\ topk_decoded.s3 = <<>>

\* the step taken on an empty ladder, and after the error
C9_Step ==
    /\ AllStagesEmpty =>
         /\ pc' = "error"
         /\ err'.type = "ValueError"
         /\ err'.vocab = (IF phase = "mask" THEN param.word_pairs[partition_n]
                          ELSE vocab_to_keep[partition_n])
         /\ err'.prompt = seed_sentences[partition_n]
    /\ pc = "error" => pc' = "error"

\* C9: when every stage of the ladder is empty for a candidate, a ValueError
\* with that candidate's vocabulary and current sentence is raised; no step
\* follows the error, so generate returns no output map
C9_UnsatisfiableAborts == [][C9_Step]_vars /\ [](pc = "done" => err.type = "none")

\* C9 witness: the error is raised for the second candidate in a revision
\* round after the first candidate has been written to the output map
C9_Witness ==
    /\ pc = "error" /\ err.type = "ValueError"
    /\ DOMAIN output_dict # {}
    /\ err.vocab = param.word_pairs[2]

\* C10 as stated: the run of six blanks around dog and cat returns exactly one
\* entry with an edit history of length 2 and a score history of length 1
C10_OneEntryLengthTwo ==
    pc = "done" =>
       /\ Cardinality(DOMAIN output_dict) = 1
       /\ \A k \in DOMAIN output_dict :
            Len(output_dict[k].edit) = 2 /\ Len(output_dict[k].ppl) = 1

\* C10: the run of six blanks around dog and cat raises no error but the
\* EOFError of input() on an exhausted standard input, never appends a sentence
\* without dog or cat, and what it returns is exactly one entry, with an edit
\* history of length 7 (the seed and one snapshot for each blank) whose last
\* sentence has no blank, and a score history of length 6
C10_OneEntryLengthSeven ==
    /\ err.type \in {"none", "EOFError"}
    /\ \A a \in Appended : \A t \in Range(a[2]) : Cardinality(AsWord(t, a[1])) = 1
    /\ pc = "done" =>
         /\ DOMAIN output_dict = {JoinKey(<<"dog", "cat">>)}
         /\ \A k \in DOMAIN output_dict :
              /\ Len(output_dict[k].edit) = 7
              /\ Len(output_dict[k].ppl) = 6
              /\ ~HasMask(Last(output_dict[k].edit))

\* C10 witness: the run has returned its entry after the revision round
C10_Witness ==
    /\ pc = "done" /\ rounds = 1
    /\ Len(param.word_pairs[1]) = 2 /\ Blanks = 6
    /\ DOMAIN output_dict # {}

\* C11: a call with seed sentences enters the revision loop with one-element
\* edit histories and empty score histories, and its first round raises no
\* TypeError and no IndexError
C11_SeedRoundCompletes ==
    /\ err.type \notin {"TypeError", "IndexError"}
    /\ pc = "update" /\ rounds = 1 =>
         \A x \in 1..Len(edit) : Len(edit[x]) = 1 /\ edit_ppl[x] = <<>>

\* in a call with seed sentences no round is ever completed
SeedNeverReturns == pc \notin {"finalize", "done"} /\ rounds <= 1

\* the sentences of the call whose encoding fills max_length: the words and
\* the two special tokens leave no padding position
TooLong == {n \in 1..Len(param.sentences) :
              Len(param.sentences[n]) + 2 >= param.max_length}

\* C12 as stated: a sentence that exceeds the maximum length is left out, the
\* others are scored, and no error is raised
C12_TooLongIsSkipped == pc # "error"

\* C12: a sentence whose encoding leaves no padding position fails the
\* assertion of EncodePlus, which ends the call: nothing is scored, no
\* sentence is left out and the others kept; a call returns, with a score for
\* every sentence, only if every sentence leaves padding
C12_TooLongAborts ==
    /\ pc = "error" =>
         /\ err.type = "AssertionError"
         /\ \E n \in TooLong : err.prompt = param.sentences[n]
         /\ ppl = <<>>
    /\ pc = "done" => TooLong = {} /\ Len(ppl) = Len(param.sentences)

\* C12 witness: the second sentence of a call is too long, after the first
\* one was encoded
C12_Witness ==
    /\ pc = "error"
    /\ Len(greedy_filling) = 1
    /\ TooLong = {2}

\* C13: without allow_subword decode_topk returns a sentence exactly when
\* every term of the vocabulary is one of its words exactly once, whatever
\* longer words that hold a term it has besides
C13_StrictIsWholeWordOnce ==
    pc \in {"decoded", "None"} /\ ~param.allow_subword =>
       (pc = "decoded" <=>
          \A t \in Range(param.v) : Cardinality(AsWord(t, param.decoded)) = 1)

\* the ladder is about to choose for candidate partition_n: every prediction
\* row of the candidate is decoded
LadderChooses ==
    pc = "predict" /\ item > Len(RowItems(seed_sentences[partition_n]))
\* the first list of the three that has an entry (the last one if none has)
FirstNonEmpty ==
    IF topk_decoded.s1 # <<>> THEN topk_decoded.s1
    ELSE IF topk_decoded.s2 # <<>> THEN topk_decoded.s2 ELSE topk_decoded.s3
\* the constraint vocabulary of candidate partition_n in this call
VocabOfCandidate ==
    IF phase = "mask" THEN param.word_pairs[partition_n] ELSE vocab_to_keep[partition_n]
\* the ladder's step for one candidate
C14_Step ==
    LadderChooses =>
       IF FirstNonEmpty = <<>>
       THEN pc' = "error"
       ELSE /\ pc' # "error"
            /\ greedy_filling' \in
                 {Append(greedy_filling, short) :
                    short \in Shortlists(DropDuplicated(FirstNonEmpty), param.topk)}

\* C14: the shortlist of a candidate is built from the first non-empty list in
\* the order strict over topk, strict over the pool, relaxed over the pool, a
\* later list never takes the place of an earlier non-empty one, and the error
\* is raised only when all three are empty
C14_LadderOrder == [][C14_Step]_vars

\* C14 witness: both strict lists were empty and the shortlist was built
\* from the relaxed list
C14_Witness ==
    /\ Len(greedy_filling) = 1
    /\ warning # NoWarning
    /\ \E j \in 1..Len(greedy_filling[1]) : "cats" \in Range(greedy_filling[1][j])

\* the warning of the ladder's step for one candidate
C15_Step ==
    LadderChooses =>
       LET relaxed == /\ topk_decoded.s1 = <<>> /\ topk_decoded.s2 = <<>>
                      /\ topk_decoded.s3 # <<>>
       IN /\ relaxed =>
               /\ warning' = [edit |-> topk_decoded.s3[1].sent, vocab |-> VocabOfCandidate]
               /\ Range(Last(greedy_filling')) \subseteq
                     {topk_decoded.s3[x].sent : x \in 1..Len(topk_decoded.s3)}
          /\ ~relaxed =>
               /\ warning' = NoWarning
               /\ pc' # "error" =>
                    Range(Last(greedy_filling')) \subseteq
                       {topk_decoded.s2[x].sent : x \in 1..Len(topk_decoded.s2)}

\* C15: a shortlist comes from the relaxed list only when both strict lists
\* are empty, and exactly then a warning is logged, with the first relaxed
\* sentence and the candidate's constraint vocabulary
C15_RelaxedWarns == [][C15_Step]_vars

\* C15 witness: a revision round has logged the warning for the candidate
\* of the pair dog, cat
C15_Witness ==
    /\ phase = "revise" /\ pc \in {"rerank", "update"}
    /\ warning.vocab = <<"dog", "cat">>
    /\ warning.edit # <<>>

\* the highest likelihood among the admissible fills that decode to d
HighestLik(d) ==
    CHOOSE m \in 1..MaxLik :
       /\ \E x \in 1..Len(param.topk_edit) :
             param.topk_edit[x].sent = d /\ param.topk_edit[x].lik = m
       /\ \A x \in 1..Len(param.topk_edit) :
             param.topk_edit[x].sent = d => param.topk_edit[x].lik <= m
\* the distinct sentences the admissible fills decode to
DistinctDecoded == {param.topk_edit[x].sent : x \in 1..Len(param.topk_edit)}

\* C16: the shortlist holds each distinct decoded sentence at most once, in
\* descending order of the highest likelihood of a fill that decodes to it,
\* and it holds min(topk, number of distinct sentences) of them, none of the
\* sentences left out having a higher likelihood than one that is kept
C16_ShortlistDedupSorted ==
    pc \in {"rerank", "done"} =>
       LET short == greedy_filling[1]
       IN /\ Range(short) \subseteq DistinctDecoded
          /\ \A a, b \in 1..Len(short) : a < b =>
                /\ short[a] # short[b]
                /\ HighestLik(short[a]) >= HighestLik(short[b])
          /\ Len(short) = IF param.topk < Cardinality(DistinctDecoded)
                          THEN param.topk ELSE Cardinality(DistinctDecoded)
          /\ \A d \in DistinctDecoded \ Range(short) :
                \A a \in 1..Len(short) : HighestLik(d) <= HighestLik(short[a])

\* C16 witness: a sentence with two fills of different likelihood comes first
\* with its higher likelihood, before a sentence whose likelihood lies between
C16_Witness ==
    /\ pc = "rerank"
    /\ Len(greedy_filling[1]) = 2
    /\ \E x, y, z \in 1..Len(param.topk_edit) :
         /\ param.topk_edit[x].sent = greedy_filling[1][1]
         /\ param.topk_edit[y].sent = greedy_filling[1][1]
         /\ param.topk_edit[z].sent = greedy_filling[1][2]
         /\ param.topk_edit[y].lik < param.topk_edit[z].lik
         /\ param.topk_edit[z].lik < param.topk_edit[x].lik

\* the sentence the reranker selects from shortlist q
SelectedFrom(q) == best_edit_of(q, [j \in 1..Len(q) |-> param.perplexity[q[j]]])

\* the reranker returns a sentence of the shortlist with the lowest
\* perplexity, the first such in shortlist order, and that perplexity
RerankPicksFirstMinimum ==
    pc = "done" =>
       LET short == greedy_filling[1]
       IN \E j \in 1..Len(short) :
             /\ seed_sentences[1] = short[j]
             /\ ppl[1] = param.perplexity[short[j]]
             /\ \A h \in 1..Len(short) : param.perplexity[short[h]] >= ppl[1]
             /\ \A h \in 1..(j - 1) : param.perplexity[short[h]] > ppl[1]

\* C17: the reranker returns the first shortlist sentence of lowest perplexity
\* with that perplexity, and the likelihoods and perplexities of the backend
\* leave only one sentence that can be selected
C17_SelectionDetermined ==
    /\ RerankPicksFirstMinimum
    /\ pc = "done" =>
         \A q \in Shortlists(DropDuplicated(param.topk_edit), param.topk) :
            SelectedFrom(q) = seed_sentences[1]

(***************************************************************************)
(* C18, C19: the partition map and the round trip through the flat list    *)
(***************************************************************************)
\* the number of items of the groups before group x
ItemsBefore(x) == Len(Chain(SubSeq(param._list, 1, x - 1)))

\* C18: for any list of groups, groups of length zero included, and whatever
\* the order in which the pool workers deliver, get_partition returns one
\* range per group in group order; the range of group x starts at the number
\* of items of the groups before it and ends that number plus its own length
\* further; consecutive ranges are contiguous and do not overlap, the first
\* starts at 0 and the last ends at the total number of items.
C18_PartitionRanges ==
    pc \in {"regroup", "done"} =>
        LET n == Len(param._list)
        IN /\ Len(pool_out) = n
           /\ pool_out = get_partition(param._list)
           /\ \A x \in 1..n :
                /\ pool_out[x][1] = ItemsBefore(x)
                /\ pool_out[x][2] = ItemsBefore(x) + Len(param._list[x])
                /\ pool_out[x][1] <= pool_out[x][2]
           /\ \A x \in 1..(n - 1) : pool_out[x][2] = pool_out[x + 1][1]
           /\ n > 0 => /\ pool_out[1][1] = 0
                       /\ pool_out[n][2] = Len(Chain(param._list))

\* three groups with an empty one in the middle, the range of the last group
\* delivered first
C18_Witness ==
    /\ pc = "regroup"
    /\ Len(param._list) = 3
    /\ Len(param._list[1]) = 2
    /\ Len(param._list[2]) = 0
    /\ Len(param._list[3]) = 1
    /\ pool[1].task = 3

\* C19: slicing the concatenation of the groups, or the flat list of the
\* scores of its items, by the ranges of get_partition gives back the
\* grouping: as many groups, each with its items in their order, for every
\* distribution of group lengths, all-zero and all-equal included.
C19_RoundTrip ==
    pc = "done" =>
        /\ edit = param._list
        /\ edit_ppl = [c \in 1..Len(param._list) |->
                         [j \in 1..Len(param._list[c]) |-> ScoreOf(param._list[c][j])]]

\* groups of different lengths, one of them empty, regrouped
C19_Witness ==
    /\ pc = "done"
    /\ Len(edit) = 3
    /\ Len(edit[1]) = 1
    /\ Len(edit[2]) = 0
    /\ Len(edit[3]) = 2
    /\ Len(edit_ppl[3]) = 2

(***************************************************************************)
(* C20: the blank-filling phase                                            *)
(***************************************************************************)
\* the number of blanks of a sentence
BlanksOf(s) == Len(SelectSeq(s, LAMBDA w : w = MASK))

\* a round takes one blank from every candidate; a round is started only
\* while fewer than Blanks rounds were made; the phase is left without the
\* assertion failing, after Blanks rounds, with no blank in any candidate
C20_Step ==
    /\ pc = "append" /\ pc' = "mask_loop" =>
         \A c \in 1..Len(seed_sentences) :
            BlanksOf(seed_sentences[c]) = BlanksOf(Last(edit)[c]) - 1
    /\ pc = "mask_loop" /\ pc' = "predict" /\ phase' = "mask" =>
         Len(edit) <= Blanks
    /\ pc = "mask_loop" /\ phase = "mask" /\ pc' # "mask_loop" /\ phase' = "mask" =>
         err'.type # "AssertionError"
    /\ phase = "mask" /\ phase' = "revise" =>
         /\ Len(edit) = Blanks + 1
         /\ AllWithoutMask

\* C20: in word-pair mode every round of the blank-filling phase fills exactly
\* one blank of every candidate and leaves the others open, so that a seed
\* with B blanks leaves the phase after exactly B rounds with no blank left and
\* B + 1 sentences in the edit history; the phase ends and its assertion
\* 'some masks got lost' never fails, whatever tokens the backend ranks.
C20_OneBlankPerRound == [][C20_Step]_vars

====
